---- MODULE Spec2Model ----
(***************************************************************************)
(* Model of core/lib/zksync_core/src/api_server/execution_sandbox/mod.rs:  *)
(* the VM concurrency limiter (VmConcurrencyLimiter, VmPermit,             *)
(* VmConcurrencyBarrier).                                                  *)
(*                                                                         *)
(* The limiter is a tokio::sync::Semaphore shared by the limiter and the   *)
(* barrier.  The semaphore is modelled by what the library does:           *)
(*   - `permits`  : the available-unit counter;                            *)
(*   - `closed`   : the closed bit;                                        *)
(*   - `waiters`  : the FIFO wait list of suspended acquire futures that   *)
(*                  have not been assigned a unit yet;                     *)
(*   - `assigned` : units handed to a waiter's node by a release, before   *)
(*                  the waiter has been polled again.                      *)
(* A released unit goes to the oldest waiter if there is one and to the    *)
(* counter otherwise; a poll of a closed semaphore fails even for a waiter *)
(* that had a unit assigned, and dropping the acquire future hands an      *)
(* assigned unit back.  The cooperative-budget yield of the runtime is     *)
(* left out.                                                               *)
(*                                                                         *)
(* The second part models block resolution (BlockStartInfo, BlockArgs).    *)
(* Each constructor is a function of the answers storage gives to the      *)
(* queries it makes; storage is a snapshot-recovery marker and a run of    *)
(* recorded miniblocks, and any query can fail.  Miniblock numbers stay    *)
(* far below the width of u32.                                             *)
(***************************************************************************)
EXTENDS Integers, Sequences, FiniteSets, TLC

\* Capacity handed to VmConcurrencyLimiter::new.
MaxConcurrency == 2
\* Request-handling tasks, more than the capacity.
NumTasks == 3
\* Largest strong count of the Arc around one semaphore permit.
MaxClones == 2
\* Largest number of close() calls followed.
MaxCloses == 2

\* Largest miniblock number in storage and in block references.
MaxBlock == 3
\* Largest L1 batch number in storage.
MaxBatch == 1
\* Largest L1 batch timestamp in storage.
MaxTimestamp == 2

Tasks == 1..NumTasks

VARIABLES
    permits,     \* Semaphore: available units
    closed,      \* Semaphore: closed bit
    waiters,     \* Semaphore: wait list, oldest first
    assigned,    \* Semaphore: units assigned to a queued acquire future
    pc,          \* per task: position in acquire() / holding a permit
    observed,    \* per task: `available_permits` sampled on entry to acquire()
    result,      \* per task: outcome of the latest acquire()
    refs,        \* per task: strong count of VmPermit::_permit issued to it
    unitsBack,   \* per task: units returned by the permit of the latest acquire()
    closeCalls,  \* number of close() calls so far
    wpc          \* position of wait_until_stopped()

\* Block resolution (BlockStartInfo, BlockArgs) and the storage it reads.
VARIABLES
    snapshot,      \* storage: the applied snapshot-recovery status, if any
    lastMiniblock, \* storage: number of the last miniblock recorded, if any
    start_info,    \* outcome of the latest BlockStartInfo::new
    block_args,    \* outcome of the latest BlockArgs::pending / BlockArgs::new
    latest_flag    \* latest answer of resolves_to_latest_sealed_miniblock()

resVars == <<snapshot, lastMiniblock, start_info, block_args, latest_flag>>

vars == <<permits, closed, waiters, assigned, pc, observed, result, refs,
          unitsBack, closeCalls, wpc, resVars>>

limVars == <<permits, closed, waiters, assigned, pc, observed, result, refs,
             unitsBack, closeCalls, wpc>>

semVars == <<permits, closed, waiters, assigned>>

PcValues == {"idle", "sampled", "waiting", "holding"}
ResultValues == {"none", "Some", "None", "Cancelled"}
WpcValues == {"idle", "loop", "sleep", "returned", "panicked"}

TypeOK ==
    /\ permits \in Nat
    /\ closed \in BOOLEAN
    /\ waiters \in Seq(Tasks)
    /\ assigned \in [Tasks -> 0..1]
    /\ pc \in [Tasks -> PcValues]
    /\ observed \in [Tasks -> Nat]
    /\ result \in [Tasks -> ResultValues]
    /\ refs \in [Tasks -> 0..MaxClones]
    /\ unitsBack \in [Tasks -> Nat]
    /\ closeCalls \in 0..MaxCloses
    /\ wpc \in WpcValues

----------------------------------------------------------------------------
\* Helpers

RECURSIVE SumOver(_, _)
SumOver(f, S) ==
    IF S = {} THEN 0
    ELSE LET x == CHOOSE y \in S : TRUE
         IN f[x] + SumOver(f, S \ {x})

\* Permits issued and not yet released (one per live OwnedSemaphorePermit).
Outstanding == Cardinality({t \in Tasks : refs[t] > 0})

\* Units assigned to waiters that have not been polled since.
InTransit == SumOver(assigned, Tasks)

InQueue(t) == \E i \in 1..Len(waiters) : waiters[i] = t

Remove(q, t) == SelectSeq(q, LAMBDA x : x # t)

----------------------------------------------------------------------------
\* Block resolution: values.  An Option is a sequence of length 0 or 1.

\* api::BlockId: a tag, and the number (or the block a hash denotes).
Tags == {"pending", "latest", "committed", "earliest"}
BlockIds ==
    [tag : Tags, v : {0}] \cup [tag : {"number", "hash"}, v : 0..MaxBlock]

PendingId == [tag |-> "pending", v |-> 0]

\* The answer of a storage query: an error, or an optional value.
DbError == [err |-> TRUE, val |-> <<>>]
Found(x) == [err |-> FALSE, val |-> <<x>>]
Absent == [err |-> FALSE, val |-> <<>>]

\* No BlockStartInfo::new has run yet.
NoStartInfo ==
    [status |-> "none", marker |-> <<>>, first_miniblock |-> 0,
     first_l1_batch |-> 0]

\* No BlockArgs constructor has run yet.
NoBlockArgs ==
    [entry |-> "none", outcome |-> "none", block_id |-> PendingId,
     first_miniblock |-> 0, blocks_recorded |-> FALSE,
     resolved_block_number |-> <<>>, l1_batch_timestamp_s |-> <<>>,
     pruned |-> <<>>, resolveAns |-> <<>>, batchAns |-> <<>>, tsAns |-> <<>>]

----------------------------------------------------------------------------
\* VmConcurrencyLimiter::new(MaxConcurrency)
Init ==
    /\ permits = MaxConcurrency
    /\ closed = FALSE
    /\ waiters = <<>>
    /\ assigned = [t \in Tasks |-> 0]
    /\ pc = [t \in Tasks |-> "idle"]
    /\ observed = [t \in Tasks |-> 0]
    /\ result = [t \in Tasks |-> "none"]
    /\ refs = [t \in Tasks |-> 0]
    /\ unitsBack = [t \in Tasks |-> 0]
    /\ closeCalls = 0
    /\ wpc = "idle"
    /\ snapshot = <<>>
    /\ lastMiniblock = <<>>
    /\ start_info = NoStartInfo
    /\ block_args = NoBlockArgs
    /\ latest_flag = <<>>

\* A release that always goes to the counter, past the wait list.
AddPermitToCounter ==
    /\ permits' = permits + 1
    /\ UNCHANGED <<waiters, assigned>>

\* One unit goes back to the semaphore: to the oldest waiter when there is
\* one (which leaves the wait list, woken), to the counter otherwise.
AddPermit ==
    IF waiters # <<>>
    THEN /\ assigned' = [assigned EXCEPT ![Head(waiters)] = 1]
         /\ waiters' = Tail(waiters)
         /\ permits' = permits
    ELSE /\ permits' = permits + 1
         /\ UNCHANGED <<waiters, assigned>>

\* The closed check at the head of a poll of acquire_owned().
PollUnchecked == FALSE
PollFailsWhenFull == closed \/ permits = 0
PollSeesClosed == closed

\* The closed check of a poll of a queued acquire_owned(): made before the
\* units assigned to the node are looked at.
ResumeAfterAssignment(t) == closed /\ assigned[t] = 0
ResumeSeesClosed(t) == closed

\* A successful poll takes one unit off the counter.
TakeNone(p) == p
TakeUnit(p) == p - 1

\* acquire(), up to the await: samples available_permits for the metric.
AcquireStart(t) ==
    /\ pc[t] = "idle"
    /\ pc' = [pc EXCEPT ![t] = "sampled"]
    /\ observed' = [observed EXCEPT ![t] = permits]
    /\ result' = [result EXCEPT ![t] = "none"]
    /\ unitsBack' = [unitsBack EXCEPT ![t] = 0]
    /\ UNCHANGED <<semVars, refs, closeCalls, wpc, resVars>>

\* First poll of acquire_owned(): closed -> None; a free unit -> Some(VmPermit);
\* otherwise the future joins the wait list and the task suspends.
AcquirePoll(t) ==
    /\ pc[t] = "sampled"
    /\ IF PollSeesClosed
       THEN /\ pc' = [pc EXCEPT ![t] = "idle"]
            /\ result' = [result EXCEPT ![t] = "None"]
            /\ observed' = [observed EXCEPT ![t] = 0]
            /\ UNCHANGED <<permits, waiters, refs>>
       ELSE IF permits > 0
       THEN /\ permits' = TakeUnit(permits)
            /\ pc' = [pc EXCEPT ![t] = "holding"]
            /\ result' = [result EXCEPT ![t] = "Some"]
            /\ refs' = [refs EXCEPT ![t] = 1]
            /\ observed' = [observed EXCEPT ![t] = 0]
            /\ UNCHANGED waiters
       ELSE /\ waiters' = Append(waiters, t)
            /\ pc' = [pc EXCEPT ![t] = "waiting"]
            /\ UNCHANGED <<permits, result, refs, observed>>
    /\ UNCHANGED <<closed, assigned, unitsBack, closeCalls, wpc, resVars>>

\* A suspended acquire_owned() is woken and polled again: by close() -> None
\* (a unit assigned meanwhile is handed back when the future is dropped);
\* by a release that assigned it a unit -> Some(VmPermit).
AcquireResume(t) ==
    /\ pc[t] = "waiting"
    /\ closed \/ assigned[t] = 1
    /\ IF ResumeSeesClosed(t)
       THEN /\ pc' = [pc EXCEPT ![t] = "idle"]
            /\ result' = [result EXCEPT ![t] = "None"]
            /\ assigned' = [assigned EXCEPT ![t] = 0]
            /\ permits' = permits + assigned[t]
            /\ UNCHANGED refs
       ELSE /\ pc' = [pc EXCEPT ![t] = "holding"]
            /\ result' = [result EXCEPT ![t] = "Some"]
            /\ assigned' = [assigned EXCEPT ![t] = 0]
            /\ refs' = [refs EXCEPT ![t] = 1]
            /\ UNCHANGED permits
    /\ observed' = [observed EXCEPT ![t] = 0]
    /\ UNCHANGED <<closed, waiters, unitsBack, closeCalls, wpc, resVars>>

\* Units a dropped acquire future hands back: those assigned to its node.
HandBackNone(t) == 0
HandBack(t) == assigned[t]

\* The task is cancelled while suspended in acquire() (the only await of
\* the function): the acquire future is dropped, leaves the wait list and
\* hands back a unit it had been assigned.
AcquireCancel(t) ==
    /\ pc[t] = "waiting"
    /\ pc' = [pc EXCEPT ![t] = "idle"]
    /\ result' = [result EXCEPT ![t] = "Cancelled"]
    /\ observed' = [observed EXCEPT ![t] = 0]
    /\ IF HandBack(t) = 1
       THEN LET q == Remove(waiters, t)
            IN IF q # <<>>
               THEN /\ assigned' = [assigned EXCEPT ![t] = 0, ![Head(q)] = 1]
                    /\ waiters' = Tail(q)
                    /\ permits' = permits
               ELSE /\ assigned' = [assigned EXCEPT ![t] = 0]
                    /\ waiters' = q
                    /\ permits' = permits + 1
       ELSE /\ waiters' = Remove(waiters, t)
            /\ assigned' = [assigned EXCEPT ![t] = 0]
            /\ UNCHANGED permits
    /\ UNCHANGED <<closed, refs, unitsBack, closeCalls, wpc, resVars>>

\* #[derive(Clone)] on VmPermit: one more strong reference to the same permit.
ClonePermit(t) ==
    /\ refs[t] > 0
    /\ refs[t] < MaxClones
    /\ refs' = [refs EXCEPT ![t] = refs[t] + 1]
    /\ UNCHANGED <<semVars, pc, observed, result, unitsBack, closeCalls, wpc>>
    /\ UNCHANGED resVars

\* The Arc around the semaphore permit drops it with its last reference.
EveryReference(t) == TRUE
LastReference(t) == refs[t] = 1

\* A VmPermit (or a clone of it) is dropped, on whatever path its holder
\* exits; the last reference drops the OwnedSemaphorePermit, which returns
\* the unit.
DropPermit(t) ==
    /\ refs[t] > 0
    /\ refs' = [refs EXCEPT ![t] = refs[t] - 1]
    /\ IF LastReference(t)
       THEN /\ AddPermit
            /\ unitsBack' = [unitsBack EXCEPT ![t] = unitsBack[t] + 1]
            /\ pc' = [pc EXCEPT ![t] = "idle"]
       ELSE UNCHANGED <<permits, waiters, assigned, unitsBack, pc>>
    /\ UNCHANGED <<closed, observed, result, closeCalls, wpc, resVars>>

\* A close() that flips the closed bit instead of setting it.
CloseToggles ==
    /\ closeCalls < MaxCloses
    /\ closeCalls' = closeCalls + 1
    /\ closed' = ~closed
    /\ waiters' = <<>>
    /\ UNCHANGED <<permits, assigned, pc, observed, result, refs, unitsBack, wpc>>
    /\ UNCHANGED resVars

\* VmConcurrencyBarrier::close(): sets the closed bit, empties the wait list
\* and wakes every waiter.
Close ==
    /\ closeCalls < MaxCloses
    /\ closeCalls' = closeCalls + 1
    /\ closed' = TRUE
    /\ waiters' = <<>>
    /\ UNCHANGED <<permits, assigned, pc, observed, result, refs, unitsBack, wpc>>
    /\ UNCHANGED resVars

\* The condition of the assertion on entry to wait_until_stopped().
AssertSkipped == TRUE
AssertClosed == closed

\* wait_until_stopped(): the assertion on entry.  The barrier is Clone, so
\* the call can be made again on another clone.
WaitCall ==
    /\ wpc \in {"idle", "returned", "panicked"}
    /\ wpc' = IF AssertClosed THEN "loop" ELSE "panicked"
    /\ UNCHANGED <<semVars, pc, observed, result, refs, unitsBack, closeCalls>>
    /\ UNCHANGED resVars

\* The exit test of the polling loop.
AllButOneBack(current_permits) == current_permits >= MaxConcurrency - 1
NeverBack(current_permits) == current_permits = MaxConcurrency + 1
AllBack(current_permits) == current_permits = MaxConcurrency

\* wait_until_stopped(): one iteration of the loop, up to the sleep.
\* `max_concurrency - current_permits` is a usize subtraction: below zero it
\* panics in a build with overflow checks and wraps in one without.
WaitPoll ==
    /\ wpc = "loop"
    /\ LET current_permits == permits
       IN IF current_permits > MaxConcurrency
          THEN wpc' \in {"panicked", "sleep"}
          ELSE IF AllBack(current_permits)
          THEN wpc' = "returned"
          ELSE wpc' = "sleep"
    /\ UNCHANGED <<semVars, pc, observed, result, refs, unitsBack, closeCalls>>
    /\ UNCHANGED resVars

\* wait_until_stopped(): POLL_INTERVAL elapses.
WaitSleep ==
    /\ wpc = "sleep"
    /\ wpc' = "loop"
    /\ UNCHANGED <<semVars, pc, observed, result, refs, unitsBack, closeCalls>>
    /\ UNCHANGED resVars

Next ==
    \/ \E t \in Tasks : AcquireStart(t)
    \/ \E t \in Tasks : AcquirePoll(t)
    \/ \E t \in Tasks : AcquireResume(t)
    \/ \E t \in Tasks : AcquireCancel(t)
    \/ \E t \in Tasks : ClonePermit(t)
    \/ \E t \in Tasks : DropPermit(t)
    \/ Close
    \/ WaitCall
    \/ WaitPoll
    \/ WaitSleep

Spec == Init /\ [][Next]_vars

\* wait_until_stopped() is driven while it runs, and a woken acquire() is
\* polled again by the runtime.
LiveSpec ==
    /\ Spec
    /\ WF_vars(WaitPoll)
    /\ WF_vars(WaitSleep)
    /\ \A t \in Tasks : WF_vars(AcquireResume(t))

\* The limiter while it is never closed.
OpenNext ==
    \/ \E t \in Tasks : AcquireStart(t)
    \/ \E t \in Tasks : AcquirePoll(t)
    \/ \E t \in Tasks : AcquireResume(t)
    \/ \E t \in Tasks : AcquireCancel(t)
    \/ \E t \in Tasks : ClonePermit(t)
    \/ \E t \in Tasks : DropPermit(t)

\* The open limiter, with a woken acquire() polled again by the runtime.
OpenSpec ==
    /\ Init
    /\ [][OpenNext]_vars
    /\ \A t \in Tasks : WF_vars(AcquireResume(t))

----------------------------------------------------------------------------
\* Storage, as the resolver's collaborator.

\* Number of the first miniblock the storage can hold.
FirstStored == IF snapshot = <<>> THEN 0 ELSE snapshot[1].miniblock_number + 1

\* Miniblock n is recorded in storage.
Recorded(n) ==
    lastMiniblock # <<>> /\ FirstStored <= n /\ n <= lastMiniblock[1]

\* What get_applied_snapshot_status() can answer.
SnapshotAnswers == {DbError, [err |-> FALSE, val |-> snapshot]}

\* What resolve_block_id(block) can answer.  The pending block is the one
\* after the last recorded; with no block recorded the storage answers
\* with the first number it can hold, or with nothing.
ResolveAnswers(block) ==
    {DbError} \cup
    CASE block.tag = "pending" ->
            IF lastMiniblock # <<>> THEN {Found(lastMiniblock[1] + 1)}
            ELSE {Found(FirstStored), Absent}
      [] block.tag \in {"latest", "committed"} ->
            IF lastMiniblock # <<>> THEN {Found(lastMiniblock[1])} ELSE {Absent}
      [] block.tag = "earliest" -> {Found(0)}
      [] OTHER -> IF Recorded(block.v) THEN {Found(block.v)} ELSE {Absent}

\* What resolve_l1_batch_number_of_miniblock() can answer.
BatchAnswers == {DbError} \cup {Found(b) : b \in 0..MaxBatch}

\* What get_expected_l1_batch_timestamp() can answer.
TimestampAnswers == {DbError, Absent} \cup {Found(ts) : ts \in 1..MaxTimestamp}

\* A snapshot is applied to an empty storage.
ApplySnapshot ==
    /\ snapshot = <<>>
    /\ lastMiniblock = <<>>
    /\ \E m \in 0..(MaxBlock - 1), b \in 0..MaxBatch :
          snapshot' = <<[miniblock_number |-> m, l1_batch_number |-> b]>>
    /\ UNCHANGED <<lastMiniblock, start_info, block_args, latest_flag, limVars>>

\* The next miniblock is recorded (genesis first on a node without snapshot).
SealMiniblock ==
    /\ LET next == IF lastMiniblock = <<>> THEN FirstStored
                   ELSE lastMiniblock[1] + 1
       IN /\ next <= MaxBlock
          /\ lastMiniblock' = <<next>>
    /\ UNCHANGED <<snapshot, start_info, block_args, latest_flag, limVars>>

----------------------------------------------------------------------------
\* BlockStartInfo

\* The first retained number, one past the recovered one.
SameAsRecovered(n) == n
OnePast(n) == n + 1

\* BlockStartInfo::new, given the storage's answer.
BlockStartInfoNew(ans) ==
    IF ans.err
    THEN [status |-> "Err", marker |-> <<>>, first_miniblock |-> 0,
          first_l1_batch |-> 0]
    ELSE [status |-> "Ok",
          marker |-> ans.val,
          first_miniblock |->
              IF ans.val = <<>> THEN 0
              ELSE OnePast(ans.val[1].miniblock_number),
          first_l1_batch |->
              IF ans.val = <<>> THEN 0
              ELSE OnePast(ans.val[1].l1_batch_number)]

\* The comparison of an explicit number with the first retained miniblock.
AtOrBelowFirst(number, first_miniblock) == number <= first_miniblock
BelowFirst(number, first_miniblock) == number < first_miniblock

\* ensure_not_pruned_block: the Err value (the first retained miniblock) if
\* the block is pruned, nothing otherwise.
EnsureNotPrunedBlock(first_miniblock, block) ==
    IF block.tag = "number" /\ BelowFirst(block.v, first_miniblock)
    THEN <<first_miniblock>>
    ELSE IF block.tag = "earliest" /\ first_miniblock > 0
    THEN <<first_miniblock>>
    ELSE <<>>

LoadStartInfo ==
    /\ \E ans \in SnapshotAnswers : start_info' = BlockStartInfoNew(ans)
    /\ UNCHANGED <<snapshot, lastMiniblock, block_args, latest_flag, limVars>>

----------------------------------------------------------------------------
\* BlockArgs

\* get_pending_state + BlockArgs::pending, given the storage's answer: a
\* failed query and a missing pending block are both anyhow errors.
BlockArgsPending(entry, first_miniblock, ans) ==
    [entry |-> entry,
     outcome |-> IF ans.err \/ ans.val = <<>> THEN "InternalError"
                 ELSE "Resolved",
     block_id |-> PendingId,
     first_miniblock |-> first_miniblock,
     blocks_recorded |-> lastMiniblock # <<>>,
     resolved_block_number |-> IF ans.err THEN <<>> ELSE ans.val,
     l1_batch_timestamp_s |-> <<>>,
     pruned |-> <<>>,
     resolveAns |-> <<ans>>, batchAns |-> <<>>, tsAns |-> <<>>]

\* The test for the pending shortcut of BlockArgs::new.
NeverPending(block) == FALSE
IsPending(block) == block = PendingId

\* The outcome of BlockArgs::new when storage has no matching block.
AbsentBlockFails == "InternalError"
AbsentBlockOutcome == "Missing"

\* The outcome of BlockArgs::new when storage has no timestamp for the batch.
AbsentTimestampMissing == "Missing"
AbsentTimestampOutcome == "InternalError"

\* BlockArgs::new, given the storage's answers to the queries it makes.
BlockArgsNew(block, first_miniblock, ansResolve, ansBatch, ansTs) ==
    LET base == [entry |-> "new", outcome |-> "none", block_id |-> block,
                 first_miniblock |-> first_miniblock,
                 blocks_recorded |-> lastMiniblock # <<>>,
                 resolved_block_number |-> <<>>,
                 l1_batch_timestamp_s |-> <<>>, pruned |-> <<>>,
                 resolveAns |-> <<>>, batchAns |-> <<>>, tsAns |-> <<>>]
        guard == EnsureNotPrunedBlock(first_miniblock, block)
    IN  IF guard # <<>>
        THEN [base EXCEPT !.outcome = "Pruned", !.pruned = guard]
        ELSE IF IsPending(block)
        THEN BlockArgsPending("new", first_miniblock, ansResolve)
        ELSE IF ansResolve.err
        THEN [base EXCEPT !.outcome = "InternalError",
                          !.resolveAns = <<ansResolve>>]
        ELSE IF ansResolve.val = <<>>
        THEN [base EXCEPT !.outcome = AbsentBlockOutcome,
                          !.resolveAns = <<ansResolve>>]
        ELSE IF ansBatch.err
        THEN [base EXCEPT !.outcome = "InternalError",
                          !.resolveAns = <<ansResolve>>,
                          !.batchAns = <<ansBatch>>]
        ELSE IF ansTs.err
        THEN [base EXCEPT !.outcome = "InternalError",
                          !.resolveAns = <<ansResolve>>,
                          !.batchAns = <<ansBatch>>,
                          !.tsAns = <<ansTs>>]
        ELSE IF ansTs.val = <<>>
        THEN [base EXCEPT !.outcome = AbsentTimestampOutcome,
                          !.resolveAns = <<ansResolve>>,
                          !.batchAns = <<ansBatch>>,
                          !.tsAns = <<ansTs>>]
        ELSE [base EXCEPT !.outcome = "Resolved",
                          !.resolved_block_number = ansResolve.val,
                          !.l1_batch_timestamp_s = ansTs.val,
                          !.resolveAns = <<ansResolve>>,
                          !.batchAns = <<ansBatch>>,
                          !.tsAns = <<ansTs>>]

\* The tags resolves_to_latest_sealed_miniblock() matches.
LatestTagsWithoutCommitted == {"pending", "latest"}
LatestTags == {"pending", "latest", "committed"}

ResolvesToLatestSealedMiniblock(args) == args.block_id.tag \in LatestTags

\* resolve_pending
ResolvePending ==
    /\ \E ans \in ResolveAnswers(PendingId) :
          block_args' = BlockArgsPending("pending", 0, ans)
    /\ latest_flag' = <<>>
    /\ UNCHANGED <<snapshot, lastMiniblock, start_info, limVars>>

\* resolve_block, with the BlockStartInfo loaded before
ResolveBlock ==
    /\ start_info.status = "Ok"
    /\ \E block \in BlockIds :
          \E ansResolve \in ResolveAnswers(block),
             ansBatch \in BatchAnswers, ansTs \in TimestampAnswers :
             block_args' = BlockArgsNew(block, start_info.first_miniblock,
                                        ansResolve, ansBatch, ansTs)
    /\ latest_flag' = <<>>
    /\ UNCHANGED <<snapshot, lastMiniblock, start_info, limVars>>

\* resolves_to_latest_sealed_miniblock() on the BlockArgs obtained
CheckLatest ==
    /\ block_args.outcome = "Resolved"
    /\ latest_flag' = <<ResolvesToLatestSealedMiniblock(block_args)>>
    /\ UNCHANGED <<snapshot, lastMiniblock, start_info, block_args, limVars>>

ResolveNext ==
    \/ ApplySnapshot
    \/ SealMiniblock
    \/ LoadStartInfo
    \/ ResolvePending
    \/ ResolveBlock
    \/ CheckLatest

ResolveSpec == Init /\ [][ResolveNext]_vars

----------------------------------------------------------------------------
\* Properties

\* Every unit is on the counter, assigned to a suspended acquire(), or held
\* by an outstanding permit.
UnitsConserved == permits + InTransit + Outstanding = MaxConcurrency

\* Task t leaves acquire() in this step.
AcquireEnds(t) == pc[t] \in {"sampled", "waiting"} /\ pc'[t] \in {"idle", "holding"}

\* Task t is cancelled inside acquire() in this step.
CancelStep(t) == pc[t] = "waiting" /\ pc'[t] = "idle" /\ result'[t] = "Cancelled"

\* C1: the number of outstanding permits never exceeds the capacity, under
\* every interleaving of acquire, drop, cancellation, close and
\* wait_until_stopped.
C1_OutstandingAtMostCapacity == Outstanding <= MaxConcurrency

C1_Witness ==
    /\ Outstanding = MaxConcurrency
    /\ \E t \in Tasks : pc[t] = "waiting" /\ InQueue(t)

\* C2: once close() has been called no permit is issued: no task gains a
\* permit, no acquire() suspends, and every acquire() that ends (other than
\* by cancellation of its task) returns None, whatever the number of free
\* units and of permits still outstanding.
C2_NoPermitAfterClose ==
    [][closeCalls > 0 =>
         \A t \in Tasks :
            /\ refs[t] = 0 => refs'[t] = 0
            /\ pc[t] = "sampled" => pc'[t] # "waiting"
            /\ AcquireEnds(t) => result'[t] \in {"None", "Cancelled"}]_vars

C2_Witness ==
    /\ closeCalls > 0
    /\ permits > 0
    /\ Outstanding > 0
    /\ \E t \in Tasks : result[t] = "None" /\ pc[t] = "idle"

\* C3: wait_until_stopped() has returned only in states where no permit is
\* outstanding.
C3_ReturnedOnlyWhenDrained == wpc = "returned" => Outstanding = 0

C3_Witness ==
    /\ wpc = "returned"
    /\ \E t \in Tasks : result[t] = "Some" /\ unitsBack[t] = 1

\* C4 as stated: after close(), the first poll of wait_until_stopped() that
\* follows the release of the last outstanding permit returns.
C4_ReturnsAtFirstPollAfterLastRelease ==
    [][(closed /\ Outstanding = 0 /\ wpc = "loop" /\ wpc' # wpc)
          => wpc' = "returned"]_vars

\* C4, amended: a poll of wait_until_stopped() that finds the available-unit
\* count equal to the capacity returns at once, and after close(), once
\* every permit has been released, a running wait_until_stopped() eventually
\* returns (a unit that a release had assigned to a waiter before the close
\* is counted as available only after that waiter has resumed or been
\* cancelled, so polls before that keep sleeping).
C4_ReturnsAfterLastRelease ==
    /\ [][wpc = "loop" /\ permits = MaxConcurrency /\ wpc' # wpc
            => wpc' = "returned"]_vars
    /\ (closed /\ Outstanding = 0 /\ wpc \in {"loop", "sleep"}) ~> (wpc = "returned")

C4_Witness ==
    /\ closed
    /\ wpc = "sleep"
    /\ permits = MaxConcurrency
    /\ \E t \in Tasks : unitsBack[t] = 1

\* C5: on an open limiter a first poll that finds a free unit succeeds
\* without suspending, so no task waits in the queue while a unit is free;
\* a queued task is handed a unit only in a step that releases a permit or
\* cancels another waiter holding an assigned unit; a release with tasks
\* queued hands the unit to the oldest of them; and a task that has been
\* handed a unit is granted a permit when it resumes on an open limiter.
C5_SuspendsOnlyWhenFull ==
    /\ [](waiters # <<>> => permits = 0)
    /\ [][\A t \in Tasks :
            /\ (~closed /\ pc[t] = "sampled" /\ permits > 0 /\ pc'[t] # pc[t])
                  => (pc'[t] = "holding" /\ refs'[t] = 1)
            /\ (pc[t] = "waiting" /\ assigned[t] = 0) => pc'[t] # "holding"
            /\ (assigned[t] = 0 /\ assigned'[t] = 1)
                  => \/ Outstanding' < Outstanding
                     \/ \E u \in Tasks : CancelStep(u) /\ assigned[u] = 1
            /\ (Outstanding' < Outstanding /\ waiters # <<>> /\ t = Head(waiters))
                  => (assigned'[t] = 1 /\ pc'[t] = "waiting")
            /\ (~closed /\ pc[t] = "waiting" /\ assigned[t] = 1
                  /\ pc'[t] # pc[t] /\ ~CancelStep(t))
                  => (pc'[t] = "holding" /\ refs'[t] = 1)]_vars

C5_Witness ==
    /\ ~closed
    /\ Outstanding = MaxConcurrency - 1
    /\ \E t \in Tasks : pc[t] = "waiting" /\ assigned[t] = 1

\* C6: a permit holds exactly one unit while it is outstanding and returns
\* it exactly once, with the drop of its last clone.
C6_UnitReturnedExactlyOnce ==
    /\ UnitsConserved
    /\ \A t \in Tasks :
          /\ refs[t] > 0 => (result[t] = "Some" /\ unitsBack[t] = 0)
          /\ (result[t] = "Some" /\ refs[t] = 0) => unitsBack[t] = 1
          /\ result[t] # "Some" => (refs[t] = 0 /\ unitsBack[t] = 0)

C6_Witness ==
    \E t, u \in Tasks :
        /\ result[t] = "Some" /\ refs[t] = 0 /\ unitsBack[t] = 1
        /\ refs[u] = MaxClones

\* C7: cancelling a task suspended in acquire() changes no permit, keeps the
\* number of units that are free or assigned to waiters, takes the task off
\* the wait list and passes a unit it had been assigned to the oldest
\* remaining waiter; in every state only tasks suspended in acquire() are
\* queued or assigned a unit, and every unit is accounted for.
C7_CancelledWaiterLeaksNothing ==
    /\ [](UnitsConserved /\ \A t \in Tasks :
            (InQueue(t) \/ assigned[t] = 1) => pc[t] = "waiting")
    /\ [][\A t \in Tasks : CancelStep(t) =>
            /\ refs' = refs
            /\ permits' + InTransit' = permits + InTransit
            /\ ~InQueue(t)' /\ assigned'[t] = 0
            /\ (assigned[t] = 1 /\ Remove(waiters, t) # <<>>)
                  => assigned'[Head(Remove(waiters, t))] = 1]_vars

C7_Witness ==
    /\ ~closed
    /\ \E t, u \in Tasks :
          /\ result[t] = "Cancelled" /\ pc[t] = "idle"
          /\ pc[u] = "waiting" /\ assigned[u] = 1

\* C8: wait_until_stopped() on a limiter that is not closed panics: while the
\* limiter is open every step of wait_until_stopped() ends in the panic, and
\* the polling loop is only ever entered on a closed limiter.
C8_WaitOnOpenLimiterPanics ==
    /\ [](wpc \in {"loop", "sleep", "returned"} => closed)
    /\ [][(~closed /\ wpc' # wpc) => wpc' = "panicked"]_vars

C8_Witness ==
    /\ wpc = "panicked"
    /\ ~closed
    /\ Outstanding > 0

\* C9: the closed bit is never cleared, and a close() on a closed limiter
\* changes nothing but the count of calls.
C9_CloseIdempotentMonotonic ==
    [][/\ closed => closed'
       /\ closeCalls' # closeCalls => closed'
       /\ (closed /\ closeCalls' # closeCalls) =>
             UNCHANGED <<permits, closed, waiters, assigned, pc, observed,
                         result, refs, unitsBack, wpc>>]_vars

C9_Witness ==
    /\ closeCalls = MaxCloses
    /\ closed
    /\ Outstanding > 0
    /\ \E t \in Tasks : pc[t] = "waiting"

\* C10: once the limiter is closed, no step increases the number of
\* outstanding permits.
C10_OutstandingNeverGrowsOnceClosed ==
    [][closed => Outstanding' <= Outstanding]_vars

C10_Witness ==
    /\ closed
    /\ wpc = "sleep"
    /\ Outstanding = 0
    /\ InTransit = 0

\* C11: acquire() returns None only on a closed limiter: a step in which an
\* acquire() ends with None is taken with the closed bit set, so while the
\* limiter is open no task has None as the outcome of its acquire().
C11_NoneOnlyWhenClosed ==
    /\ [](\A t \in Tasks : result[t] = "None" => closed)
    /\ [][\A t \in Tasks :
            (AcquireEnds(t) /\ result'[t] = "None") => closed]_vars

C11_Witness ==
    /\ ~closed
    /\ permits = 0
    /\ \E t, u \in Tasks :
          /\ pc[t] = "waiting" /\ InQueue(t)
          /\ pc[u] = "waiting" /\ assigned[u] = 1

\* C12: on a limiter that is never closed, if every issued permit is
\* eventually released (no task holds a permit forever), every task
\* suspended in acquire() eventually leaves it with a permit, unless its
\* task is cancelled.
C12_NoWaiterStarves ==
    (\A u \in Tasks : []<>(refs[u] = 0))
    => \A t \in Tasks :
          (pc[t] = "waiting") ~> (pc[t] = "holding" \/ result[t] = "Cancelled")

C12_Witness ==
    /\ ~closed
    /\ \E t, u \in Tasks :
          /\ t # u
          /\ pc[t] = "waiting" /\ assigned[t] = 1
          /\ pc[u] = "sampled"
          /\ result[u] = "none"

\* The latest BlockArgs constructor was resolve_block / resolve_pending for
\* the pending tag.
PendingRequest ==
    \/ block_args.entry = "pending"
    \/ block_args.entry = "new" /\ block_args.block_id.tag = "pending"
          /\ block_args.outcome # "Pruned"

\* C13: resolve_block answers Pruned exactly for an explicit number below
\* first_block and for `earliest` with first_block > 0, and Pruned always
\* carries first_block.
C13_PrunedExactlyBelowFirst ==
    block_args.entry = "new" =>
        LET b == block_args.block_id
            first == block_args.first_miniblock
        IN /\ block_args.outcome = "Pruned"
                <=> \/ b.tag = "number" /\ b.v < first
                    \/ b.tag = "earliest" /\ first > 0
           /\ block_args.outcome = "Pruned" => block_args.pruned = <<first>>
           /\ block_args.outcome # "Pruned" => block_args.pruned = <<>>

C13_Witness ==
    /\ block_args.entry = "new"
    /\ block_args.outcome = "Pruned"
    /\ block_args.block_id.tag = "number"
    /\ block_args.block_id.v + 1 = block_args.first_miniblock

\* C14: a resolved BlockArgs has no batch timestamp if and only if its
\* reference is the pending tag.
C14_TimestampAbsentIffPending ==
    block_args.outcome = "Resolved" =>
        (block_args.l1_batch_timestamp_s = <<>>
            <=> block_args.block_id.tag = "pending")

C14_Witness ==
    /\ block_args.entry = "new"
    /\ block_args.outcome = "Resolved"
    /\ block_args.block_id.tag = "pending"
    /\ block_args.first_miniblock > 0

\* C15: for a non-pending reference that passes the pruning guard, when
\* storage reports no matching block resolve_block answers Missing and
\* asks storage for neither a batch nor a timestamp.
C15_AbsentBlockIsMissing ==
    (/\ block_args.entry = "new"
     /\ block_args.block_id.tag # "pending"
     /\ block_args.resolveAns = <<Absent>>)
    => /\ block_args.outcome = "Missing"
       /\ block_args.batchAns = <<>>
       /\ block_args.tsAns = <<>>

C15_Witness ==
    /\ block_args.entry = "new"
    /\ block_args.block_id.tag = "number"
    /\ block_args.block_id.v >= block_args.first_miniblock
    /\ block_args.resolveAns = <<Absent>>
    /\ block_args.outcome = "Missing"

\* C16: when the block resolves but storage has no timestamp for its batch
\* the outcome is InternalError with no BlockArgs built, and every
\* resolution ends in one of Resolved, Pruned, Missing, InternalError.
C16_AbsentTimestampIsInternalError ==
    /\ block_args.tsAns = <<Absent>>
          => /\ block_args.outcome = "InternalError"
             /\ block_args.resolved_block_number = <<>>
             /\ block_args.l1_batch_timestamp_s = <<>>
    /\ block_args.entry # "none"
          => block_args.outcome
                \in {"Resolved", "Pruned", "Missing", "InternalError"}
    /\ block_args.outcome = "Resolved"
          <=> block_args.resolved_block_number # <<>>

C16_Witness ==
    /\ block_args.entry = "new"
    /\ block_args.block_id.tag = "latest"
    /\ block_args.resolveAns # <<>>
    /\ block_args.resolveAns[1].val # <<>>
    /\ block_args.tsAns = <<Absent>>
    /\ block_args.outcome = "InternalError"

\* C17: BlockStartInfo::new gives (0, 0) without a recovery marker and the
\* recovered numbers + 1 with one; with it the pruning guard rejects the
\* recovered miniblock and accepts the one after it.
C17_StartInfoOnePastRecovery ==
    start_info.status = "Ok" =>
        IF start_info.marker = <<>>
        THEN start_info.first_miniblock = 0 /\ start_info.first_l1_batch = 0
        ELSE LET rec == start_info.marker[1]
                 first == start_info.first_miniblock
             IN /\ first = rec.miniblock_number + 1
                /\ start_info.first_l1_batch = rec.l1_batch_number + 1
                /\ EnsureNotPrunedBlock(first,
                      [tag |-> "number", v |-> rec.miniblock_number])
                      = <<first>>
                /\ EnsureNotPrunedBlock(first,
                      [tag |-> "number", v |-> rec.miniblock_number + 1])
                      = <<>>

C17_Witness ==
    /\ start_info.status = "Ok"
    /\ start_info.marker # <<>>
    /\ block_args.entry = "new"
    /\ block_args.first_miniblock = start_info.first_miniblock
    /\ block_args.block_id.tag = "number"
    /\ block_args.block_id.v = start_info.first_miniblock
    /\ block_args.outcome = "Resolved"

\* C18 as stated: with a block recorded in storage, resolving the pending
\* tag always succeeds, without a batch timestamp.
C18_PendingAlwaysSucceeds ==
    (PendingRequest /\ block_args.blocks_recorded)
    => /\ block_args.outcome = "Resolved"
       /\ block_args.l1_batch_timestamp_s = <<>>

\* C18, amended: with a block recorded in storage, resolving the pending
\* tag succeeds unless the storage query itself fails, which gives
\* InternalError; the result carries no batch timestamp, the guard never
\* prunes the pending tag, and the answer is never Pruned or Missing.
C18_PendingSucceedsUnlessQueryFails ==
    /\ (block_args.entry = "new" /\ block_args.block_id.tag = "pending")
          => block_args.outcome # "Pruned"
    /\ PendingRequest
          => /\ block_args.outcome \in {"Resolved", "InternalError"}
             /\ block_args.l1_batch_timestamp_s = <<>>
             /\ block_args.batchAns = <<>> /\ block_args.tsAns = <<>>
    /\ (PendingRequest /\ block_args.blocks_recorded)
          => (block_args.outcome = "InternalError"
                <=> block_args.resolveAns = <<DbError>>)

C18_Witness ==
    /\ block_args.entry = "new"
    /\ block_args.block_id.tag = "pending"
    /\ block_args.first_miniblock > 0
    /\ block_args.blocks_recorded
    /\ block_args.outcome = "Resolved"
    /\ block_args.resolved_block_number # <<>>

\* C19: resolves_to_latest_sealed_miniblock() answers true for pending,
\* latest and committed and false for earliest, a number and a hash.
C19_LatestSealedOnlyForMovingTags ==
    latest_flag # <<>> =>
        /\ block_args.block_id.tag \in {"pending", "latest", "committed"}
              => latest_flag = <<TRUE>>
        /\ block_args.block_id.tag \in {"earliest", "number", "hash"}
              => latest_flag = <<FALSE>>

C19_Witness ==
    /\ latest_flag = <<TRUE>>
    /\ block_args.block_id.tag = "committed"
    /\ block_args.l1_batch_timestamp_s # <<>>

\* C20 as stated: available units + outstanding permits = capacity.
C20_AvailablePlusOutstandingIsCapacity ==
    permits + Outstanding = MaxConcurrency

\* C20, amended: available units + units assigned to suspended acquires +
\* outstanding permits = capacity; so the available count never exceeds
\* max_concurrency, the subtraction in wait_until_stopped() never goes
\* below zero, and available = capacity implies that no permit is
\* outstanding (the converse fails while a unit is assigned to a waiter).
C20_UnitConservation ==
    /\ permits + InTransit + Outstanding = MaxConcurrency
    /\ permits <= MaxConcurrency
    /\ MaxConcurrency - permits >= 0
    /\ permits = MaxConcurrency => (Outstanding = 0 /\ InTransit = 0)
    /\ (Outstanding = 0 /\ InTransit = 0) => permits = MaxConcurrency

C20_Witness ==
    /\ closed
    /\ Outstanding = 0
    /\ InTransit = 1
    /\ permits = MaxConcurrency - 1
    /\ wpc = "sleep"

====
